---- MODULE Spec2Model ----
(***************************************************************************)
(* The Drive ingestion tool of resume_agent/tools.py:                      *)
(* load_and_parse_drive_contents, its folder walker                        *)
(* _list_files_recursively, its downloader _read_drive_file_content and    *)
(* its decoder _parse_content.                                             *)
(*                                                                         *)
(* Python strings are sequences of one-character strings and bytes are     *)
(* sequences of integers.  Long literals of the source are abbreviated:    *)
(* "/f/" stands for "/folders/", "UT" for "Unsupported file type" and      *)
(* "UT:n" for "Unsupported file type: Could not decode as text.".          *)
(***************************************************************************)
EXTENDS Integers, Sequences, FiniteSets, Bags, TLC

(***************************************************************************)
(* Bounds of the model.                                                    *)
(***************************************************************************)
\* files.list requests of one walker frame the model keeps count of: later
\* requests of the frame are still made and answered, but page_count stays at
\* MaxPageCount + 1, their pages are not logged and their entries are not
\* collected again
MaxPageCount == 3
\* bytes one next_chunk call of the downloader delivers
ChunkSize == 2

(***************************************************************************)
(* Python string operations used by the tool.                              *)
(***************************************************************************)
SetMin(S) == CHOOSE m \in S : \A n \in S : m <= n

\* positions at which sub occurs in s
Occurrences(sub, s) ==
    {k \in 1..(Len(s) - Len(sub) + 1) : SubSeq(s, k, k + Len(sub) - 1) = sub}

\* sub in s
Contains(sub, s) == Occurrences(sub, s) # {}

\* s.split(sep): the pieces between the non-overlapping occurrences of sep,
\* scanned from the left
RECURSIVE Split(_, _)
Split(s, sep) ==
    IF Occurrences(sep, s) = {}
    THEN <<s>>
    ELSE LET k == SetMin(Occurrences(sep, s))
         IN  <<SubSeq(s, 1, k - 1)>> \o Split(SubSeq(s, k + Len(sep), Len(s)), sep)

Last(q) == q[Len(q)]

\* s.strip()
RECURSIVE Strip(_)
Strip(s) ==
    IF s = <<>> THEN s
    ELSE IF Head(s) = " " THEN Strip(Tail(s))
    ELSE IF Last(s) = " " THEN Strip(SubSeq(s, 1, Len(s) - 1))
    ELSE s

LowerChar(c) ==
    CASE c = "P" -> "p"
      [] c = "D" -> "d"
      [] c = "F" -> "f"
      [] c = "R" -> "r"
      [] OTHER   -> c

\* s.lower()
Lower(s) == [k \in 1..Len(s) |-> LowerChar(s[k])]

\* s.endswith(suf)
EndsWith(s, suf) ==
    Len(suf) <= Len(s) /\ SubSeq(s, Len(s) - Len(suf) + 1, Len(s)) = suf

\* "".join(parts)
RECURSIVE Concat(_)
Concat(parts) ==
    IF parts = <<>> THEN <<>> ELSE Head(parts) \o Concat(Tail(parts))

\* sep.join(parts)
RECURSIVE Join(_, _)
Join(sep, parts) ==
    IF parts = <<>> THEN <<>>
    ELSE IF Len(parts) = 1 THEN Head(parts)
    ELSE Head(parts) \o sep \o Join(sep, Tail(parts))

(***************************************************************************)
(* The folder id of a URL, lines 146-152.                                  *)
(***************************************************************************)
FoldersSep == <<"/", "f", "/">>
DSep == <<"/", "d", "/">>

ExtractFolderId(folder_url) ==
    IF Contains(FoldersSep, folder_url)
    THEN Head(Split(Head(Split(Last(Split(folder_url, FoldersSep)), <<"?">>)), <<"/">>))
    ELSE IF Contains(DSep, folder_url)
    THEN Head(Split(Last(Split(folder_url, DSep)), <<"/">>))
    ELSE Strip(folder_url)

(***************************************************************************)
(* The Drive backend: the folders, the pages of their listings and the     *)
(* bytes of their files.  Every listing and every download may also fail.  *)
(***************************************************************************)
FolderMime == "application/vnd.google-apps.folder"

Folder(id) == [id |-> <<id>>, name |-> <<id>>, mimeType |-> FolderMime]
File(id, name, mime) == [id |-> <<id>>, name |-> name, mimeType |-> mime]

Pdf == <<".", "p", "d", "f">>
Docx == <<".", "d", "o", "c", "x">>

F1 == File("1", <<"r">> \o Pdf, "application/pdf")
F2 == File("2", <<"R", ".", "P", "D", "F">>, "application/pdf")
F3 == File("3", <<"c">> \o Docx, "application/docx")
F4 == File("4", <<"n", ".", "t", "x", "t">>, "text/plain")
F5 == File("5", <<"b", ".", "t", "x", "t">>, "text/plain")
F6 == File("6", <<"z", ".", "x", "y", "z">>, "application/octet-stream")
F7 == File("7", <<"m", ".", "t", "x", "t">>, "text/plain")
F8 == File("8", <<"s", ".", "t", "x", "t">>, "text/plain")
F9 == File("9", <<"t", ".", "t", "x", "t">>, "text/plain")

\* the bytes behind a file id
DriveContent(file_id) ==
    CASE file_id = <<"1">> -> <<37, 120, 84>>
      [] file_id = <<"2">> -> <<120>>
      [] file_id = <<"3">> -> <<80, 120, 85>>
      [] file_id = <<"4">> -> <<120, 120>>
      [] file_id = <<"5">> -> <<120, 255>>
      [] file_id = <<"6">> -> <<85, 120>>
      [] file_id = <<"7">> -> <<120, 85, 84>>
      [] OTHER             -> <<120>>

\* the pages of the listing of a folder; <<>> for an id that names no folder
DrivePages(folder_id) ==
    CASE folder_id = <<"A">> -> << <<Folder("B"), F1, Folder("C")>> >>
      [] folder_id = <<"B">> -> << <<F4, Folder("K"), F7>> >>
      [] folder_id = <<"K">> -> << <<F6>> >>
      [] folder_id = <<"C">> -> << <<F3>> >>
      [] folder_id = <<"D">> -> << <<F2, F5>> >>
      [] folder_id = <<"P">> -> << <<F8>>, <<F9>> >>
      [] folder_id = <<"E">> -> << <<Folder("G")>> >>
      [] folder_id = <<"G">> -> << <<>> >>
      [] OTHER               -> <<>>

\* page_token = None
NoToken == 0

\* the response of files.list(q = "'folder_id' in parents", pageToken = token):
\* without a token the first page, with token k the k-th page
ListResponse(folder_id, token) ==
    LET pages == DrivePages(folder_id)
        k     == IF token = NoToken THEN 1 ELSE token
    IN  [files         |-> pages[k],
         nextPageToken |-> IF k < Len(pages) THEN k + 1 ELSE NoToken]

\* the exceptions a download may raise
FetchErrors == {<<"e1">>, <<"e2">>}

\* the folder URLs given to the tool
H == <<"h", ":", "/", "/", "g">>
FolderUrls ==
    { H \o FoldersSep \o <<"A", "?", "u">>,
      H \o FoldersSep \o <<"B", "/", "v">>,
      H \o DSep \o <<"D", "/", "v">>,
      <<" ", "P", " ">>,
      <<"E">>,
      <<"Z">>,
      H \o <<"/", "x">>,
      H \o FoldersSep,
      <<" ", " ">> }

(***************************************************************************)
(* _parse_content, lines 109-127.  A result is the returned text or the    *)
(* exception raised.                                                       *)
(***************************************************************************)
Returned(text) == [raised |-> FALSE, text |-> text]
Raised(error) == [raised |-> TRUE, error |-> error]

Chr(b) ==
    CASE b = 37  -> "%"
      [] b = 58  -> ":"
      [] b = 80  -> "P"
      [] b = 84  -> "T"
      [] b = 85  -> "U"
      [] b = 110 -> "n"
      [] OTHER   -> "x"

\* content.decode('utf-8'): no byte of the model above 127 starts a valid
\* UTF-8 sequence
Utf8Valid(content) == \A k \in 1..Len(content) : content[k] < 128
Utf8Decode(content) == [k \in 1..Len(content) |-> Chr(content[k])]

\* fitz.open(stream = content, filetype = "pdf"): a document starts with "%",
\* every later byte is a page with that character as its text
FitzOpens(content) == content # <<>> /\ Head(content) = 37
FitzPageTexts(content) == [k \in 1..(Len(content) - 1) |-> <<Chr(content[k + 1])>>]
FitzError == <<"cannot open broken document">>

\* docx.Document(io.BytesIO(content)): a document starts with "P", every
\* later byte is a paragraph with that character as its text
DocxOpens(content) == content # <<>> /\ Head(content) = 80
DocxParagraphs(content) == [k \in 1..(Len(content) - 1) |-> <<Chr(content[k + 1])>>]
DocxError == <<"Package not found">>

UnsupportedMarker == <<"U", "T">>
UnsupportedMessage == <<"U", "T", ":", "n">>

\* as _parse_content, but every name that does not end in .pdf, .docx or
\* .txt gets the unsupported-format message at once
_parse_content_KnownNamesOnly(filename, content) ==
    IF EndsWith(Lower(filename), Pdf)
    THEN IF FitzOpens(content)
         THEN Returned(Concat(FitzPageTexts(content)))
         ELSE Raised(FitzError)
    ELSE IF EndsWith(Lower(filename), Docx)
    THEN IF DocxOpens(content)
         THEN Returned(Join(<<"\n">>, DocxParagraphs(content)))
         ELSE Raised(DocxError)
    ELSE IF EndsWith(Lower(filename), <<".", "t", "x", "t">>) /\ Utf8Valid(content)
         THEN Returned(Utf8Decode(content))
         ELSE Returned(UnsupportedMessage)

_parse_content(filename, content) ==
    IF EndsWith(Lower(filename), Pdf)
    THEN IF FitzOpens(content)
         THEN Returned(Concat(FitzPageTexts(content)))
         ELSE Raised(FitzError)
    ELSE IF EndsWith(Lower(filename), Docx)
    THEN IF DocxOpens(content)
         THEN Returned(Join(<<"\n">>, DocxParagraphs(content)))
         ELSE Raised(DocxError)
    ELSE IF Utf8Valid(content)
         THEN Returned(Utf8Decode(content))
         ELSE Returned(UnsupportedMessage)

(***************************************************************************)
(* The state of one call of load_and_parse_drive_contents.                 *)
(***************************************************************************)
VARIABLES
    pc,            \* position of the call
    folder_url,    \* argument of the call
    folder_id,     \* line 146
    stack,         \* the active calls of _list_files_recursively, innermost last
    all_files,     \* line 160
    i,             \* line 171
    attempt,       \* line 232
    file_io,       \* line 240
    content_resp,  \* line 178
    parsed_files,  \* line 168
    failed_files,  \* line 169
    state,         \* tool_context.state
    result,        \* the value the call returned
    prior,         \* tool_context.state when the call started
    raised,        \* the exceptions the attempts of the current download raised
    log            \* the backend calls, sleeps, decoder calls and state writes of the call

vars == <<pc, folder_url, folder_id, stack, all_files, i, attempt, file_io,
          content_resp, parsed_files, failed_files, state, result, prior,
          raised, log>>

walkVars == <<stack, all_files>>
fileVars == <<i, attempt, file_io, content_resp, parsed_files, failed_files, raised>>

NoState == [k \in {} |-> <<>>]
NoResult == [pending |-> TRUE]
NoResponse == [status |-> "none"]

\* a report an earlier call left in the session
PriorReport ==
    [parsed_files     |-> << [filename |-> <<"o", ".", "t", "x", "t">>, file_id |-> <<"0">>,
                              content_length |-> 1, text_content |-> <<"x">>] >>,
     failed_files     |-> <<>>,
     total_files      |-> 1,
     successful_files |-> 1]

\* the dict of line 164 and of line 227
ErrorResult(message) == [status |-> "error", message |-> message]
NoFilesMessage == <<"No files found in the folder or its subfolders.">>
CriticalMessage(e) == <<"A critical error occurred: ">> \o e
ValueErrorMessage == <<"Could not extract a valid Folder ID from the provided URL.">>
AuthError == <<"DefaultCredentialsError">>
TransportError == <<"ServerNotFoundError">>

\* as Summary, but the first count is the number of all files gone through
Summary_CountsAll(parsed, failed) ==
    [text |-> <<"Successfully processed ", Len(parsed) + Len(failed), " files. ",
                Len(failed), " failed.">>]

\* the string of line 223
Summary(parsed, failed) ==
    [text |-> <<"Successfully processed ", Len(parsed), " files. ", Len(failed), " failed.">>]

IsError(r) == "status" \in DOMAIN r
IsSummary(r) == "text" \in DOMAIN r

Init ==
    /\ pc = "idle"
    /\ folder_url = <<>>
    /\ folder_id = <<>>
    /\ stack = <<>>
    /\ all_files = <<>>
    /\ i = 0
    /\ attempt = 0
    /\ file_io = <<>>
    /\ content_resp = NoResponse
    /\ parsed_files = <<>>
    /\ failed_files = <<>>
    /\ state \in {NoState, "drive_data" :> PriorReport}
    /\ result = NoResult
    /\ prior = state
    /\ raised = <<>>
    /\ log = <<>>

\* the agent calls the tool with a folder URL, lines 131-140
Call(url) ==
    /\ pc = "idle"
    /\ pc' = "auth"
    /\ folder_url' = url
    /\ prior' = state
    /\ UNCHANGED <<folder_id, walkVars, fileVars, state, result, log>>

\* the except clause of lines 225-227
Critical(e) ==
    /\ result' = ErrorResult(CriticalMessage(e))
    /\ pc' = "done"

\* as AuthenticateFails, but the credentials are only asked for by the first
\* files.list request
AuthenticateFails_AtFirstListing ==
    /\ pc = "auth"
    /\ Critical(AuthError)
    /\ log' = Append(log, [ev |-> "list", folder_id |-> ExtractFolderId(folder_url),
                           pageToken |-> 0, outcome |-> "raised"])
    /\ UNCHANGED <<folder_url, folder_id, walkVars, fileVars, state, prior>>

\* _authenticate_drive or build raises, lines 141-142
AuthenticateFails ==
    /\ pc = "auth"
    /\ Critical(AuthError)
    /\ UNCHANGED <<folder_url, folder_id, walkVars, fileVars, state, prior, log>>

\* a fresh call of _list_files_recursively, lines 65-68
Frame(fid) ==
    [folder_id     |-> fid,
     all_files     |-> <<>>,
     page_token    |-> NoToken,
     page_count    |-> 0,
     files_in_page |-> <<>>,
     next_token    |-> NoToken,
     sent          |-> NoToken,
     idx           |-> 0,
     at            |-> "list"]

\* as ResolveFolder, but without the check of lines 154-155: the walk starts
\* with an empty folder id
ResolveFolder_ListsAnyway ==
    /\ pc = "auth"
    /\ folder_id' = ExtractFolderId(folder_url)
    /\ pc' = "walk"
    /\ stack' = <<Frame(folder_id')>>
    /\ UNCHANGED <<folder_url, all_files, fileVars, state, result, prior, log>>

\* authentication succeeds and the folder id is extracted, lines 141-160
ResolveFolder ==
    /\ pc = "auth"
    /\ folder_id' = ExtractFolderId(folder_url)
    /\ IF folder_id' = <<>>
       THEN /\ Critical(ValueErrorMessage)
            /\ UNCHANGED stack
       ELSE /\ pc' = "walk"
            /\ stack' = <<Frame(folder_id')>>
            /\ UNCHANGED result
    /\ UNCHANGED <<folder_url, all_files, fileVars, state, prior, log>>

(***************************************************************************)
(* _list_files_recursively, lines 63-107.                                  *)
(***************************************************************************)
Top == stack[Len(stack)]

\* the pageToken argument of the files.list request of lines 75-79: the
\* request names q, spaces and fields only
RequestToken(page_token) == NoToken

ListEvent(fid, token, outcome) ==
    [ev |-> "list", folder_id |-> fid, pageToken |-> token, outcome |-> outcome]

\* as WalkerReturns, but line 93 assigns the entries of the subfolder instead
\* of extending all_files with them
WalkerReturns_Assigns(found) ==
    IF Len(stack) = 1
    THEN /\ all_files' = found
         /\ stack' = <<>>
         /\ pc' = "inventory"
    ELSE /\ stack' = [SubSeq(stack, 1, Len(stack) - 1) EXCEPT
                         ![Len(stack) - 1].all_files = found,
                         ![Len(stack) - 1].idx = @ + 1]
         /\ UNCHANGED <<all_files, pc>>

\* a call of _list_files_recursively returns found to its caller, which is
\* line 93 of the enclosing call or line 160
WalkerReturns(found) ==
    IF Len(stack) = 1
    THEN /\ all_files' = found
         /\ stack' = <<>>
         /\ pc' = "inventory"
    ELSE /\ stack' = [SubSeq(stack, 1, Len(stack) - 1) EXCEPT
                         ![Len(stack) - 1].all_files =
                             IF stack[Len(stack) - 1].page_count <= MaxPageCount
                             THEN @ \o found ELSE @,
                         ![Len(stack) - 1].idx = @ + 1]
         /\ UNCHANGED <<all_files, pc>>

\* the next files.list request is about to be made, lines 69-72
AtList ==
    /\ pc = "walk"
    /\ Top.at = "list"

\* files.list answers with a page, lines 70-87
ListPage ==
    /\ AtList
    /\ DrivePages(Top.folder_id) # <<>>
    /\ LET token    == RequestToken(Top.page_token)
           response == ListResponse(Top.folder_id, token)
       IN  /\ stack' = [stack EXCEPT ![Len(stack)] =
                           [@ EXCEPT !.page_count =
                                         IF @ <= MaxPageCount THEN @ + 1 ELSE @,
                                     !.sent = token,
                                     !.files_in_page = response.files,
                                     !.next_token = response.nextPageToken,
                                     !.idx = 1,
                                     !.at = "items"]]
           /\ log' = IF Top.page_count < MaxPageCount
                     THEN Append(log, ListEvent(Top.folder_id, token, "page"))
                     ELSE log
    /\ UNCHANGED <<pc, folder_url, folder_id, all_files, fileVars, state, result, prior>>

\* files.list raises HttpError, lines 80-84
ListHttpError ==
    /\ AtList
    /\ WalkerReturns(<<>>)
    /\ log' = Append(log, ListEvent(Top.folder_id, RequestToken(Top.page_token), "HttpError"))
    /\ UNCHANGED <<folder_url, folder_id, fileVars, state, result, prior>>

\* files.list raises an exception that is no HttpError: no handler in
\* _list_files_recursively, caught at line 225
ListRaises ==
    /\ AtList
    /\ Critical(TransportError)
    /\ stack' = <<>>
    /\ log' = Append(log, ListEvent(Top.folder_id, RequestToken(Top.page_token), "raised"))
    /\ UNCHANGED <<folder_url, folder_id, all_files, fileVars, state, prior>>

\* one entry of the page, lines 89-97
WalkEntry ==
    /\ pc = "walk"
    /\ Top.at = "items"
    /\ Top.idx <= Len(Top.files_in_page)
    /\ LET file == Top.files_in_page[Top.idx]
       IN  IF file.mimeType = FolderMime
           THEN stack' = Append(stack, Frame(file.id))
           ELSE stack' = [stack EXCEPT ![Len(stack)].all_files =
                                           IF Top.page_count <= MaxPageCount
                                           THEN Append(@, file) ELSE @,
                                       ![Len(stack)].idx = @ + 1]
    /\ UNCHANGED <<pc, folder_url, folder_id, all_files, fileVars, state, result, prior, log>>

\* the end of the page, lines 99-107
WalkPageEnd ==
    /\ pc = "walk"
    /\ Top.at = "items"
    /\ Top.idx > Len(Top.files_in_page)
    /\ IF Top.next_token = NoToken
       THEN WalkerReturns(Top.all_files)
       ELSE /\ stack' = [stack EXCEPT ![Len(stack)].page_token = Top.next_token,
                                      ![Len(stack)].at = "list"]
            /\ UNCHANGED <<all_files, pc>>
    /\ UNCHANGED <<folder_url, folder_id, fileVars, state, result, prior, log>>

\* as CheckInventory, but without the return of line 164: an empty inventory
\* goes on to the report
CheckInventory_EmptySuccess ==
    /\ pc = "inventory"
    /\ pc' = IF all_files = <<>> THEN "store" ELSE "attempt"
    /\ i' = 1
    /\ parsed_files' = <<>>
    /\ failed_files' = <<>>
    /\ UNCHANGED <<folder_url, folder_id, walkVars, attempt, file_io, content_resp,
                   raised, state, result, prior, log>>

\* the inventory check, lines 162-169
CheckInventory ==
    /\ pc = "inventory"
    /\ IF all_files = <<>>
       THEN /\ result' = ErrorResult(NoFilesMessage)
            /\ pc' = "done"
            /\ UNCHANGED <<i, parsed_files, failed_files>>
       ELSE /\ pc' = "attempt"
            /\ i' = 1
            /\ parsed_files' = <<>>
            /\ failed_files' = <<>>
            /\ UNCHANGED result
    /\ UNCHANGED <<folder_url, folder_id, walkVars, attempt, file_io, content_resp,
                   raised, state, prior, log>>

(***************************************************************************)
(* _read_drive_file_content, lines 229-254.                                *)
(***************************************************************************)
\* max_retries: int = 2, line 229; line 178 passes no other value
DefaultMaxRetries == 2

\* as WaitTime, but the same wait before every retry
WaitTime_Constant(n) == IF n = 0 THEN 0 ELSE 2

\* wait_time = attempt * 2, line 235
WaitTime(n) == n * 2

\* the dict of line 249
ReadSuccess(content) == [status |-> "success", content |-> content]

\* as ReadFailure, but with the exception of the first attempt
ReadFailure_FirstError(max_retries, e) ==
    [status  |-> "error",
     message |-> <<"Failed to download after ", ToString(max_retries + 1), " attempts: ">>
                 \o Head(raised)]

\* the dict of line 254
ReadFailure(max_retries, e) ==
    [status  |-> "error",
     message |-> <<"Failed to download after ", ToString(max_retries + 1), " attempts: ">> \o e]

\* one attempt starts, lines 232-242
BeginAttempt ==
    /\ pc = "attempt"
    /\ pc' = "chunk"
    /\ file_io' = <<>>
    /\ log' = log
              \o (IF attempt > 0 THEN <<[ev |-> "sleep", seconds |-> WaitTime(attempt)]>> ELSE <<>>)
              \o <<[ev |-> "get_media", i |-> i, file_id |-> all_files[i].id, attempt |-> attempt]>>
    /\ UNCHANGED <<folder_url, folder_id, walkVars, i, attempt, content_resp,
                   parsed_files, failed_files, raised, state, result, prior>>

\* the bytes next_chunk writes to file_io when written bytes are there already
NextBytes(content, written) ==
    SubSeq(content, written + 1,
           IF written + ChunkSize < Len(content) THEN written + ChunkSize ELSE Len(content))

\* downloader.next_chunk() delivers a chunk, lines 243-249
NextChunk ==
    /\ pc = "chunk"
    /\ LET content == DriveContent(all_files[i].id)
           buffer  == file_io \o NextBytes(content, Len(file_io))
       IN  /\ file_io' = buffer
           /\ IF Len(buffer) >= Len(content)
              THEN /\ content_resp' = ReadSuccess(buffer)
                   /\ pc' = "process"
                   /\ log' = Append(log, [ev |-> "read", i |-> i, status |-> "success"])
              ELSE UNCHANGED <<content_resp, pc, log>>
    /\ UNCHANGED <<folder_url, folder_id, walkVars, i, attempt, parsed_files,
                   failed_files, raised, state, result, prior>>

\* get_media or next_chunk raises, lines 251-254
DownloadRaises(e) ==
    /\ pc = "chunk"
    /\ raised' = Append(raised, e)
    /\ IF attempt = DefaultMaxRetries
       THEN /\ content_resp' = ReadFailure(DefaultMaxRetries, e)
            /\ pc' = "process"
            /\ log' = Append(log, [ev |-> "read", i |-> i, status |-> "error"])
            /\ UNCHANGED attempt
       ELSE /\ attempt' = attempt + 1
            /\ pc' = "attempt"
            /\ UNCHANGED <<content_resp, log>>
    /\ UNCHANGED <<folder_url, folder_id, walkVars, i, file_io, parsed_files,
                   failed_files, state, result, prior>>

(***************************************************************************)
(* The body of the loop over the files, lines 171-204.                     *)
(***************************************************************************)
\* the dict of lines 188-193
FileInfo(file, text_content) ==
    [filename       |-> file.name,
     file_id        |-> file.id,
     content_length |-> Len(text_content),
     text_content   |-> text_content]

\* the dict of line 199
Failure(file, error) == [filename |-> file.name, error |-> error]

\* str(IOError(...)) of line 180
IOErrorMessage(message) == <<"Failed to read file content: ">> \o message

\* the check of line 184
IsUnsupported(text_content) == Contains(UnsupportedMarker, text_content)

\* as Processed, but without the raise of line 180: the decoder runs on a
\* download that failed
Processed_DecodesUnread(file, resp) ==
    IF resp.status = "error"
    THEN LET text == _parse_content(file.name, <<>>)
         IN  IF text.raised
             THEN [decoded |-> TRUE, parsed |-> FALSE, entry |-> Failure(file, text.error)]
             ELSE [decoded |-> TRUE, parsed |-> TRUE, entry |-> FileInfo(file, text.text)]
    ELSE LET text == _parse_content(file.name, resp.content)
         IN  IF text.raised
             THEN [decoded |-> TRUE, parsed |-> FALSE, entry |-> Failure(file, text.error)]
             ELSE IF Contains(UnsupportedMarker, text.text)
             THEN [decoded |-> TRUE, parsed |-> FALSE, entry |-> Failure(file, text.text)]
             ELSE [decoded |-> TRUE, parsed |-> TRUE, entry |-> FileInfo(file, text.text)]

\* what lines 177-200 do with a file and the answer of its download:
\* whether _parse_content was called, and the entry for parsed_files or
\* failed_files
Processed(file, resp) ==
    IF resp.status = "error"
    THEN [decoded |-> FALSE, parsed |-> FALSE,
          entry |-> Failure(file, IOErrorMessage(resp.message))]
    ELSE LET text == _parse_content(file.name, resp.content)
         IN  IF text.raised
             THEN [decoded |-> TRUE, parsed |-> FALSE, entry |-> Failure(file, text.error)]
             ELSE IF IsUnsupported(text.text)
             THEN [decoded |-> TRUE, parsed |-> FALSE, entry |-> Failure(file, text.text)]
             ELSE [decoded |-> TRUE, parsed |-> TRUE, entry |-> FileInfo(file, text.text)]

\* as ParsedAfter, but the new entry is put in front
ParsedAfter_Prepends(parsed, p) == IF p.parsed THEN <<p.entry>> \o parsed ELSE parsed

\* parsed_files.append(file_info), line 195
ParsedAfter(parsed, p) == IF p.parsed THEN Append(parsed, p.entry) ELSE parsed

\* as FailedAfter, but a file whose download failed is skipped without a record
FailedAfter_SkipsUnread(failed, p) ==
    IF p.parsed \/ ~p.decoded THEN failed ELSE Append(failed, p.entry)

\* failed_files.append(...), line 199
FailedAfter(failed, p) == IF p.parsed THEN failed ELSE Append(failed, p.entry)

\* as ProcessFile, but the report is stored after every file
ProcessFile_StoresEachFile ==
    /\ pc = "process"
    /\ LET p == Processed(all_files[i], content_resp)
       IN  /\ parsed_files' = ParsedAfter(parsed_files, p)
           /\ failed_files' = FailedAfter(failed_files, p)
           /\ log' = log
                     \o (IF p.decoded THEN <<[ev |-> "decode", i |-> i]>> ELSE <<>>)
                     \o <<[ev |-> "write", key |-> "drive_data"]>>
                     \o (IF i < Len(all_files) THEN <<[ev |-> "pause"]>> ELSE <<>>)
    /\ state' = ("drive_data" :> [parsed_files     |-> parsed_files',
                                  failed_files     |-> failed_files',
                                  total_files      |-> Len(all_files),
                                  successful_files |-> Len(parsed_files')]) @@ state
    /\ IF i < Len(all_files)
       THEN /\ i' = i + 1
            /\ pc' = "attempt"
       ELSE /\ pc' = "store"
            /\ UNCHANGED i
    /\ attempt' = 0
    /\ raised' = <<>>
    /\ content_resp' = NoResponse
    /\ UNCHANGED <<folder_url, folder_id, walkVars, file_io, result, prior>>

\* one file is decoded and recorded, lines 179-204
ProcessFile ==
    /\ pc = "process"
    /\ LET p == Processed(all_files[i], content_resp)
       IN  /\ parsed_files' = ParsedAfter(parsed_files, p)
           /\ failed_files' = FailedAfter(failed_files, p)
           /\ log' = log
                     \o (IF p.decoded THEN <<[ev |-> "decode", i |-> i]>> ELSE <<>>)
                     \o (IF i < Len(all_files) THEN <<[ev |-> "pause"]>> ELSE <<>>)
    /\ IF i < Len(all_files)
       THEN /\ i' = i + 1
            /\ pc' = "attempt"
       ELSE /\ pc' = "store"
            /\ UNCHANGED i
    /\ attempt' = 0
    /\ raised' = <<>>
    /\ content_resp' = NoResponse
    /\ UNCHANGED <<folder_url, folder_id, walkVars, file_io, state, result, prior>>

\* the dict of lines 209-214
DriveData(parsed, failed, files) ==
    [parsed_files     |-> parsed,
     failed_files     |-> failed,
     total_files      |-> Len(files),
     successful_files |-> Len(parsed)]

\* as Store, but the lists of the call are appended to the lists of the
\* report the session holds already
Store_Merges ==
    /\ pc = "store"
    /\ state' = ("drive_data" :>
                    IF "drive_data" \in DOMAIN state
                    THEN DriveData(state["drive_data"].parsed_files \o parsed_files,
                                   state["drive_data"].failed_files \o failed_files,
                                   all_files)
                    ELSE DriveData(parsed_files, failed_files, all_files)) @@ state
    /\ log' = Append(log, [ev |-> "write", key |-> "drive_data"])
    /\ result' = Summary(parsed_files, failed_files)
    /\ pc' = "done"
    /\ UNCHANGED <<folder_url, folder_id, walkVars, fileVars, prior>>

\* the report is stored and the summary returned, lines 206-223
Store ==
    /\ pc = "store"
    /\ state' = ("drive_data" :> DriveData(parsed_files, failed_files, all_files)) @@ state
    /\ log' = Append(log, [ev |-> "write", key |-> "drive_data"])
    /\ result' = Summary(parsed_files, failed_files)
    /\ pc' = "done"
    /\ UNCHANGED <<folder_url, folder_id, walkVars, fileVars, prior>>

Next ==
    \/ \E url \in FolderUrls : Call(url)
    \/ AuthenticateFails
    \/ ResolveFolder
    \/ ListPage
    \/ ListHttpError
    \/ ListRaises
    \/ WalkEntry
    \/ WalkPageEnd
    \/ CheckInventory
    \/ BeginAttempt
    \/ NextChunk
    \/ \E e \in FetchErrors : DownloadRaises(e)
    \/ ProcessFile
    \/ Store

Spec == Init /\ [][Next]_vars

(***************************************************************************)
(* The decoder and the loop body on a folder that holds one file of any    *)
(* name and any bytes: the call stands where the download of that file has *)
(* just returned.                                                          *)
(***************************************************************************)
\* longest content of such a file
MaxContentLen == 3

DecoderNames ==
    { <<"r">> \o Pdf,
      <<"R", ".", "P", "D", "F">>,
      <<"c">> \o Docx,
      <<"n", ".", "t", "x", "t">>,
      <<"z", ".", "x", "y", "z">>,
      <<"p", "d", "f">> }

DecoderBytes == {37, 80, 84, 85, 120, 255}

DecoderContents ==
    UNION {[1..n -> DecoderBytes] : n \in 0..MaxContentLen}

DecoderInit ==
    /\ pc = "process"
    /\ folder_url = <<"X">>
    /\ folder_id = <<"X">>
    /\ stack = <<>>
    /\ \E name \in DecoderNames :
           all_files = <<File("1", name, "application/octet-stream")>>
    /\ i = 1
    /\ attempt = 0
    /\ \E content \in DecoderContents :
           /\ file_io = content
           /\ content_resp = ReadSuccess(content)
    /\ parsed_files = <<>>
    /\ failed_files = <<>>
    /\ state \in {NoState, "drive_data" :> PriorReport}
    /\ result = NoResult
    /\ prior = state
    /\ raised = <<>>
    /\ log = << ListEvent(<<"X">>, NoToken, "page"),
                [ev |-> "get_media", i |-> 1, file_id |-> <<"1">>, attempt |-> 0],
                [ev |-> "read", i |-> 1, status |-> "success"] >>

DecoderNext ==
    \/ ProcessFile
    \/ Store

DecoderSpec == DecoderInit /\ [][DecoderNext]_vars

(***************************************************************************)
(* What the log tells about a call.                                        *)
(***************************************************************************)
Events(kind) == {k \in DOMAIN log : log[k].ev = kind}

\* the folders a files.list request of which ended with one of the outcomes
ListFailures(outcomes) ==
    {log[k].folder_id : k \in {n \in Events("list") : log[n].outcome \in outcomes}}

\* _list_files_recursively has returned to line 160
WalkReturned ==
    \/ pc \in {"inventory", "attempt", "chunk", "process", "store"}
    \/ pc = "done" /\ (IsSummary(result) \/ result = ErrorResult(NoFilesMessage))

\* the regular entries below a folder, depth first in listing order, without
\* the entries below the pruned folders
RECURSIVE RegularEntries(_, _)
RegularEntries(fid, pruned) ==
    IF fid \in pruned
    THEN <<>>
    ELSE LET entries == Concat(DrivePages(fid))
         IN  Concat([k \in 1..Len(entries) |->
                        IF entries[k].mimeType = FolderMime
                        THEN RegularEntries(entries[k].id, pruned)
                        ELSE <<entries[k]>>])

NoDuplicates(q) == \A m, n \in 1..Len(q) : q[m] = q[n] => m = n

\* how often each filename occurs in a list of dicts
NameBag(q, field) ==
    LET names == {q[k][field] : k \in 1..Len(q)}
    IN  [n \in names |-> Cardinality({k \in 1..Len(q) : q[k][field] = n})]

(***************************************************************************)
(* C1: when the call has returned the success summary, the stored report   *)
(* holds every entry the walker returned in exactly one of parsed_files    *)
(* and failed_files: the two lengths add up to the number of entries and   *)
(* the filenames of the two lists together are the filenames of the        *)
(* entries, with the same multiplicities.                                  *)
(***************************************************************************)
C1_EveryEntryRecordedOnce ==
    (pc = "done" /\ IsSummary(result)) =>
        LET report == state["drive_data"]
        IN  /\ Len(all_files) >= 1
            /\ Len(report.parsed_files) + Len(report.failed_files) = Len(all_files)
            /\ NameBag(report.parsed_files, "filename") (+) NameBag(report.failed_files, "filename")
                   = NameBag(all_files, "name")
            /\ \A k \in 1..Len(report.parsed_files) :
                   \E n \in 1..Len(all_files) : report.parsed_files[k].file_id = all_files[n].id

\* a finished call over five entries: one download failed, one decoded file
\* was refused and the others were parsed
C1_Witness ==
    /\ pc = "done"
    /\ IsSummary(result)
    /\ Len(all_files) = 5
    /\ Len(state["drive_data"].parsed_files) >= 2
    /\ Cardinality({log[k].i : k \in {n \in Events("read") : log[n].status = "error"}}) = 1
    /\ Len(state["drive_data"].failed_files) = 2

(***************************************************************************)
(* C2: the walker follows the continuation tokens of a listing: the        *)
(* request that brought the page a walker call is working on carried the   *)
(* token the previous page returned (none for the first page), and the     *)
(* n-th request of a folder brought the n-th page of its listing.          *)
(***************************************************************************)
C2_FollowsContinuationTokens ==
    \A d \in DOMAIN stack :
        (pc = "walk" /\ stack[d].at = "items") =>
            /\ stack[d].sent = stack[d].page_token
            /\ stack[d].files_in_page = DrivePages(stack[d].folder_id)[stack[d].page_count]

(***************************************************************************)
(* C3: _read_drive_file_content never raises and answers by the outcome of *)
(* its attempts: a success with the whole content of the file when an      *)
(* attempt succeeds, which it does after at most two failures, and a       *)
(* failure with the exception of the third attempt when three attempts     *)
(* failed.                                                                 *)
(***************************************************************************)
ReadAnswered ==
    pc = "process" =>
        /\ Len(raised) <= 3
        /\ Len(raised) < 3 =>
               /\ content_resp.status = "success"
               /\ content_resp.content = DriveContent(all_files[i].id)
        /\ Len(raised) = 3 =>
               /\ content_resp.status = "error"
               /\ content_resp.message =
                      <<"Failed to download after ", "3", " attempts: ">> \o raised[3]

ReadReturns ==
    pc \in {"attempt", "chunk"} =>
        /\ pc' \in {"attempt", "chunk", "process"}
        /\ result' = result
        /\ (pc' = "process" => content_resp'.status \in {"success", "error"})

C3_ReadNeverRaises == []ReadAnswered /\ [][ReadReturns]_vars

\* the download of an earlier file failed on three attempts, the last with
\* another exception than the first, and the download of this file succeeded
\* on its third attempt
C3_Witness ==
    /\ pc = "process"
    /\ Len(raised) = 2
    /\ content_resp.status = "success"
    /\ Len(content_resp.content) = 3
    /\ failed_files # <<>>
    /\ failed_files[1].error =
           <<"Failed to read file content: ", "Failed to download after ", "3",
             " attempts: ", "e2">>
    /\ \E k \in Events("read") : log[k].status = "error"

(***************************************************************************)
(* C4: while no listing has failed, the entries a walker call has          *)
(* collected are regular entries, each held once, and the walker returns   *)
(* exactly the regular entries of the whole tree below the folder.         *)
(***************************************************************************)
C4_WalkerReturnsRegularEntriesOnce ==
    ListFailures({"HttpError", "raised"}) = {} =>
        /\ pc = "walk" =>
               \A d \in DOMAIN stack :
                   /\ NoDuplicates(stack[d].all_files)
                   /\ \A k \in 1..Len(stack[d].all_files) :
                          stack[d].all_files[k].mimeType # FolderMime
        /\ WalkReturned =>
               /\ all_files = RegularEntries(folder_id, {})
               /\ NoDuplicates(all_files)

(***************************************************************************)
(* C5 as claimed: whatever the failure of a listing, the walker returns,   *)
(* and returns the regular entries of all folders but those below a folder *)
(* the listing of which failed.                                            *)
(***************************************************************************)
C5_ListingFailureContained ==
    /\ (pc = "done" /\ ListFailures({"HttpError", "raised"}) # {}) => WalkReturned
    /\ WalkReturned =>
           all_files = RegularEntries(folder_id, ListFailures({"HttpError", "raised"}))

(***************************************************************************)
(* C5 as amended: a listing that fails with HttpError leaves the walk      *)
(* going, and when the walker returns it returns the regular entries of    *)
(* all folders but those below a folder the listing of which failed with   *)
(* HttpError; a listing that fails with another exception ends the call    *)
(* with the critical error and writes nothing.                             *)
(***************************************************************************)
C5_HttpErrorContained ==
    /\ (pc = "done" /\ Events("list") # {} /\ ListFailures({"raised"}) = {}) => WalkReturned
    /\ WalkReturned =>
           all_files = RegularEntries(folder_id, ListFailures({"HttpError"}))
    /\ ListFailures({"raised"}) # {} =>
           /\ pc = "done"
           /\ result = ErrorResult(<<"A critical error occurred: ", "ServerNotFoundError">>)
           /\ state = prior

\* the listing of subfolder B of A failed with HttpError; the walker returned
\* the entry of A itself and the entry of B's sibling C
C5_Witness ==
    /\ WalkReturned
    /\ folder_id = <<"A">>
    /\ ListFailures({"HttpError"}) = {<<"B">>}
    /\ all_files = <<F1, F3>>

(***************************************************************************)
(* C6: a file the download of which succeeded goes to parsed_files, with   *)
(* the text of the decoder, if and only if the decoder returned a text     *)
(* other than its unsupported-format message; otherwise it goes to         *)
(* failed_files with the message of the decoder.                           *)
(***************************************************************************)
ParsedIffDecoded ==
    (pc = "process" /\ content_resp.status = "success") =>
        LET file == all_files[i]
            d    == _parse_content(file.name, content_resp.content)
        IN  IF ~d.raised /\ d.text # <<"U", "T", ":", "n">>
            THEN /\ parsed_files' = Append(parsed_files,
                                           [filename       |-> file.name,
                                            file_id        |-> file.id,
                                            content_length |-> Len(d.text),
                                            text_content   |-> d.text])
                 /\ failed_files' = failed_files
            ELSE /\ failed_files' = Append(failed_files,
                                           [filename |-> file.name,
                                            error    |-> IF d.raised THEN d.error ELSE d.text])
                 /\ parsed_files' = parsed_files

C6_ParsedIffDecoderReturnedText == [][ParsedIffDecoded]_vars

(***************************************************************************)
(* C7: a download that failed after its retries makes the loop body record *)
(* the file in failed_files with the error of the download, without a call *)
(* of the decoder, and go on with the next file; a call in which a         *)
(* download failed still ends with the summary after every entry has been  *)
(* downloaded, and every other file is parsed or not by its own content.   *)
(***************************************************************************)
DecodeCalls(l) == {k \in DOMAIN l : l[k].ev = "decode"}

FailedDownloadRecorded ==
    (pc = "process" /\ content_resp.status = "error") =>
        /\ failed_files' = Append(failed_files,
                                  [filename |-> all_files[i].name,
                                   error    |-> <<"Failed to read file content: ">>
                                                \o content_resp.message])
        /\ parsed_files' = parsed_files
        /\ DecodeCalls(log') = DecodeCalls(log)
        /\ IF i < Len(all_files)
           THEN pc' = "attempt" /\ i' = i + 1
           ELSE pc' = "store"

FailedReads == {log[k].i : k \in {n \in Events("read") : log[n].status = "error"}}

FailedDownloadIsolated ==
    (pc = "done" /\ FailedReads # {}) =>
        /\ IsSummary(result)
        /\ {log[k].i : k \in Events("read")} = 1..Len(all_files)
        /\ {log[k].i : k \in Events("decode")} = (1..Len(all_files)) \ FailedReads
        /\ Len(failed_files) >= Cardinality(FailedReads)
        /\ \A n \in (1..Len(all_files)) \ FailedReads :
               LET d == _parse_content(all_files[n].name, DriveContent(all_files[n].id))
               IN  (\E k \in 1..Len(parsed_files) : parsed_files[k].file_id = all_files[n].id)
                       <=> (~d.raised /\ ~Contains(<<"U", "T">>, d.text))

C7_FetchFailureRecordedAndIsolated ==
    []FailedDownloadIsolated /\ [][FailedDownloadRecorded]_vars

\* the download of the first of five files failed; the call ended with the
\* summary and later files were parsed
C7_Witness ==
    /\ pc = "done"
    /\ IsSummary(result)
    /\ Len(all_files) = 5
    /\ FailedReads = {1}
    /\ failed_files[1].filename = all_files[1].name
    /\ failed_files[1].error[1] = "Failed to read file content: "
    /\ Len(parsed_files) = 3

(***************************************************************************)
(* C8 as claimed: for a filename that ends in none of .pdf, .docx and .txt *)
(* the decoder returns the unsupported-format message, whatever the bytes. *)
(***************************************************************************)
RecognizedExtensions == {Pdf, Docx, <<".", "t", "x", "t">>}

Unrecognized(filename) ==
    \A ext \in RecognizedExtensions : ~EndsWith(Lower(filename), ext)

\* the loop body has called the decoder for the only file of the folder
DecoderCalled == pc \in {"store", "done"} /\ Len(all_files) = 1

C8_UnrecognizedAlwaysUnsupported ==
    (DecoderCalled /\ Unrecognized(all_files[1].name)) =>
        _parse_content(all_files[1].name, file_io) = Returned(<<"U", "T", ":", "n">>)

(***************************************************************************)
(* C8 as amended: for a filename that ends in none of .pdf, .docx and .txt *)
(* the decoder never raises; it returns the unsupported-format message     *)
(* when the bytes are not valid UTF-8 and the decoded text when they are,  *)
(* and the loop body records a decoded text that does not hold the         *)
(* unsupported-format marker in parsed_files.                              *)
(***************************************************************************)
C8_UnrecognizedDecodedAsUtf8 ==
    (DecoderCalled /\ Unrecognized(all_files[1].name)) =>
        LET d == _parse_content(all_files[1].name, file_io)
        IN  /\ ~d.raised
            /\ IF \E k \in 1..Len(file_io) : file_io[k] >= 128
               THEN d.text = <<"U", "T", ":", "n">>
               ELSE /\ Len(d.text) = Len(file_io)
                    /\ \A k \in 1..Len(file_io) : d.text[k] = Chr(file_io[k])
                    /\ (pc = "store" /\ ~Contains(<<"U", "T">>, d.text)) =>
                           /\ Len(parsed_files) = 1
                           /\ parsed_files[1].text_content = d.text
                           /\ failed_files = <<>>

\* the decoder was called for z.xyz with valid UTF-8 bytes and its text went
\* to parsed_files
C8_Witness ==
    /\ pc = "store"
    /\ all_files[1].name = <<"z", ".", "x", "y", "z">>
    /\ file_io = <<120, 85>>
    /\ Len(parsed_files) = 1
    /\ parsed_files[1].text_content = <<"x", "U">>

(***************************************************************************)
(* C9: an empty inventory ends the call with the error dict: the inventory *)
(* check answers an empty list with the no-files error and no write, a     *)
(* call that ended with no entry discovered returned an error and left the *)
(* session state alone, and a report the call stored never has both lists  *)
(* empty.                                                                  *)
(***************************************************************************)
EmptyInventoryRefused ==
    (pc = "inventory" /\ all_files = <<>>) =>
        /\ pc' = "done"
        /\ result' = [status |-> "error",
                      message |-> <<"No files found in the folder or its subfolders.">>]
        /\ state' = state

NoEmptyReport ==
    /\ (pc = "done" /\ all_files = <<>>) =>
           /\ IsError(result)
           /\ ~IsSummary(result)
           /\ state = prior
    /\ IsSummary(result) => all_files # <<>>
    /\ (pc = "done" /\ Events("write") # {}) =>
           \/ state["drive_data"].parsed_files # <<>>
           \/ state["drive_data"].failed_files # <<>>

C9_EmptyInventoryIsError == []NoEmptyReport /\ [][EmptyInventoryRefused]_vars

\* folder E holds only the empty folder G: both listings succeeded and the
\* call ended with the no-files error
C9_Witness ==
    /\ pc = "done"
    /\ folder_id = <<"E">>
    /\ Len(log) = 2
    /\ ListFailures({"HttpError", "raised"}) = {}
    /\ result = ErrorResult(NoFilesMessage)
    /\ "drive_data" \in DOMAIN state

(***************************************************************************)
(* C10: a call that ended with the error dict wrote nothing: the session   *)
(* state is what it was when the call started; and for a folder URL from   *)
(* which no folder id can be extracted the call ends at once with the      *)
(* error, without a files.list or get_media request.                       *)
(***************************************************************************)
NoIdUrls == {H \o FoldersSep, <<" ", " ">>}

C10_ErrorWritesNothing ==
    /\ (pc = "done" /\ IsError(result)) =>
           /\ state = prior
           /\ Events("write") = {}
    /\ (folder_url \in NoIdUrls /\ pc \notin {"idle", "auth"}) =>
           /\ pc = "done"
           /\ IsError(result)
           /\ log = <<>>
           /\ state = prior

\* the URL ends with /folders/: the call ended with the error and the report
\* of the earlier call is still in the session state
C10_Witness ==
    /\ pc = "done"
    /\ folder_url = H \o FoldersSep
    /\ result = ErrorResult(CriticalMessage(ValueErrorMessage))
    /\ log = <<>>
    /\ state = ("drive_data" :> PriorReport)

(***************************************************************************)
(* Two calls in one session: the session is empty at the first call, and   *)
(* the tool is called again once the first call has stored its report.     *)
(***************************************************************************)
\* the folder URLs of the first call
FirstUrls == {<<"C">>, H \o DSep \o <<"D", "/", "v">>, <<"Z">>}

\* the agent calls the tool again, lines 131-140: the locals are those of a
\* new call, tool_context.state is that of the session
CallAgain(url) ==
    /\ pc = "done"
    /\ "drive_data" \notin DOMAIN prior
    /\ "drive_data" \in DOMAIN state
    /\ pc' = "auth"
    /\ folder_url' = url
    /\ prior' = state
    /\ folder_id' = <<>>
    /\ stack' = <<>>
    /\ all_files' = <<>>
    /\ i' = 0
    /\ attempt' = 0
    /\ file_io' = <<>>
    /\ content_resp' = NoResponse
    /\ parsed_files' = <<>>
    /\ failed_files' = <<>>
    /\ raised' = <<>>
    /\ result' = NoResult
    /\ log' = <<>>
    /\ UNCHANGED state

TwoCallInit == Init /\ state = NoState

TwoCallNext ==
    \/ \E url \in FirstUrls : Call(url)
    \/ \E url \in FolderUrls : CallAgain(url)
    \/ AuthenticateFails
    \/ ResolveFolder
    \/ ListPage
    \/ ListHttpError
    \/ ListRaises
    \/ WalkEntry
    \/ WalkPageEnd
    \/ CheckInventory
    \/ BeginAttempt
    \/ NextChunk
    \/ \E e \in FetchErrors : DownloadRaises(e)
    \/ ProcessFile
    \/ Store

TwoCallSpec == TwoCallInit /\ [][TwoCallNext]_vars

(***************************************************************************)
(* C11: when the second call has returned the summary, the session holds   *)
(* under drive_data the report of the second call and nothing else: its    *)
(* lists are the lists of the second call, every entry of them is an entry *)
(* of the folder of the second call, and no entry of the first report is   *)
(* left in them when the second folder does not hold that file.            *)
(***************************************************************************)
SecondCallStored == pc = "done" /\ "drive_data" \in DOMAIN prior /\ IsSummary(result)

C11_SecondReportReplacesFirst ==
    SecondCallStored =>
        LET new == state["drive_data"]
            old == prior["drive_data"]
            ids == {all_files[k].id : k \in 1..Len(all_files)}
            names == {all_files[k].name : k \in 1..Len(all_files)}
        IN  /\ DOMAIN state = {"drive_data"}
            /\ new.parsed_files = parsed_files
            /\ new.failed_files = failed_files
            /\ new.total_files = Len(all_files)
            /\ Len(new.parsed_files) + Len(new.failed_files) = Len(all_files)
            /\ \A k \in 1..Len(new.parsed_files) : new.parsed_files[k].file_id \in ids
            /\ \A k \in 1..Len(new.failed_files) : new.failed_files[k].filename \in names
            /\ \A k \in 1..Len(old.parsed_files) :
                   old.parsed_files[k].file_id \notin ids =>
                       \A n \in 1..Len(new.parsed_files) :
                           new.parsed_files[n] # old.parsed_files[k]
            /\ \A k \in 1..Len(old.failed_files) :
                   old.failed_files[k].filename \notin names =>
                       \A n \in 1..Len(new.failed_files) :
                           new.failed_files[n] # old.failed_files[k]

\* the first call parsed the file of folder C, the second call went over the
\* two files of folder D and stored its report
C11_Witness ==
    /\ SecondCallStored
    /\ Len(prior["drive_data"].parsed_files) = 1
    /\ prior["drive_data"].parsed_files[1].file_id = <<"3">>
    /\ folder_id = <<"D">>
    /\ state["drive_data"].total_files = 2
    /\ Len(state["drive_data"].failed_files) = 2

(***************************************************************************)
(* C12 as claimed: every call that has ended has written                   *)
(* tool_context.state exactly once.                                        *)
(***************************************************************************)
C12_WrittenExactlyOnceInEveryRun ==
    pc = "done" => Cardinality(Events("write")) = 1

(***************************************************************************)
(* C12 as amended: a call writes tool_context.state at most once, and once *)
(* when it returns the summary: until the write the state is what it was   *)
(* when the call started, the write is the last thing the call does, after *)
(* the download and the decoding of every entry, it stores the finished    *)
(* lists, and the only step that changes the state is that write.          *)
(***************************************************************************)
WrittenOnceAtTheEnd ==
    /\ Cardinality(Events("write")) <= 1
    /\ Events("write") = {} => state = prior
    /\ (pc = "done" /\ IsSummary(result)) => Cardinality(Events("write")) = 1
    /\ Events("write") # {} =>
           /\ pc = "done"
           /\ log[Len(log)].ev = "write"
           /\ {log[k].i : k \in Events("read")} = 1..Len(all_files)
           /\ Len(parsed_files) + Len(failed_files) = Len(all_files)
           /\ state["drive_data"].parsed_files = parsed_files
           /\ state["drive_data"].failed_files = failed_files

OnlyTheStoreWrites ==
    state' # state => (pc = "store" /\ pc' = "done" /\ state = prior)

C12_ReportWrittenOnceAfterAllFiles == []WrittenOnceAtTheEnd /\ [][OnlyTheStoreWrites]_vars

\* a call over five files has stored its report over the report of an
\* earlier call
C12_Witness ==
    /\ pc = "done"
    /\ Cardinality(Events("write")) = 1
    /\ Len(all_files) = 5
    /\ prior = ("drive_data" :> PriorReport)
    /\ state # prior
    /\ Cardinality(Events("decode")) >= 3

(***************************************************************************)
(* C13: the summary a call returns names the number of parsed files and    *)
(* the number of failed files of the report the call stored; total_files   *)
(* of the report is their sum and successful_files is the number of parsed *)
(* files.                                                                  *)
(***************************************************************************)
C13_SummaryCountsMatchReport ==
    (pc = "done" /\ IsSummary(result)) =>
        LET report == state["drive_data"]
        IN  /\ result.text = <<"Successfully processed ", Len(report.parsed_files),
                               " files. ", Len(report.failed_files), " failed.">>
            /\ report.total_files = Len(report.parsed_files) + Len(report.failed_files)
            /\ report.successful_files = Len(report.parsed_files)

\* the summary of a call that parsed three files and failed on two
C13_Witness ==
    /\ pc = "done"
    /\ IsSummary(result)
    /\ result.text[2] = 3
    /\ result.text[4] = 2
    /\ state["drive_data"].total_files = 5

(***************************************************************************)
(* C14: a call in which the authentication fails ends with the error dict  *)
(* at once, without a files.list or get_media request and without a write; *)
(* requests are made only once the authentication has succeeded and the    *)
(* folder id is known.                                                     *)
(***************************************************************************)
AuthenticationFailed ==
    result = [status  |-> "error",
              message |-> <<"A critical error occurred: ", "DefaultCredentialsError">>]

NoRequestWithoutCredentials ==
    /\ AuthenticationFailed =>
           /\ pc = "done"
           /\ Events("list") = {}
           /\ Events("get_media") = {}
           /\ log = <<>>
           /\ state = prior
    /\ pc \in {"idle", "auth"} => log = <<>>
    /\ log # <<>> => folder_id # <<>>

AuthenticationFailureEndsCall ==
    (pc = "auth" /\ pc' = "done" /\ folder_url \notin NoIdUrls) =>
        /\ result' = [status  |-> "error",
                      message |-> <<"A critical error occurred: ", "DefaultCredentialsError">>]
        /\ log' = <<>>

C14_AuthFailureBeforeAnyListing ==
    []NoRequestWithoutCredentials /\ [][AuthenticationFailureEndsCall]_vars

\* the authentication failed for the URL of folder A
C14_Witness ==
    /\ pc = "done"
    /\ AuthenticationFailed
    /\ folder_url = H \o FoldersSep \o <<"A", "?", "u">>
    /\ log = <<>>

(***************************************************************************)
(* A call under the scheduling of the interpreter: the single thread of    *)
(* the call keeps running, and every backend call returns a result or an   *)
(* error, so a step that can be taken is taken.                            *)
(***************************************************************************)
FairSpec == Spec /\ WF_vars(Next)

(***************************************************************************)
(* C15: every call of the tool ends, with the error dict or with the       *)
(* summary.                                                                *)
(***************************************************************************)
C15_EveryCallTerminates == <>(pc = "done" /\ (IsError(result) \/ IsSummary(result)))

(***************************************************************************)
(* C16: a download makes at most three attempts, numbered 0, 1 and 2, and  *)
(* none after an attempt that succeeded; attempt 0 follows no wait of the  *)
(* download, and attempt n > 0 follows a wait of n * 2 seconds, 2 and then *)
(* 4; the download waits nowhere else.                                     *)
(***************************************************************************)
\* the attempts made so far for the i-th file, in the order of the log
AttemptsOf(n) ==
    LET picks == SelectSeq(log, LAMBDA e : e.ev = "get_media" /\ e.i = n)
    IN  [k \in 1..Len(picks) |-> picks[k].attempt]

C16_ThreeAttemptsWaitsTwoAndFour ==
    /\ \A n \in 1..Len(all_files) :
           /\ Len(AttemptsOf(n)) <= 3
           /\ \A k \in 1..Len(AttemptsOf(n)) : AttemptsOf(n)[k] = k - 1
    /\ \A g \in Events("get_media") :
           /\ log[g].attempt = 0 => (g = 1 \/ log[g - 1].ev # "sleep")
           /\ log[g].attempt = 1 => log[g - 1] = [ev |-> "sleep", seconds |-> 2]
           /\ log[g].attempt = 2 => log[g - 1] = [ev |-> "sleep", seconds |-> 4]
    /\ \A w \in Events("sleep") :
           /\ w < Len(log)
           /\ log[w + 1].ev = "get_media"
           /\ log[w].seconds = log[w + 1].attempt * 2
    /\ \A r \in Events("read") : \A g \in Events("get_media") :
           (log[r].status = "success" /\ log[g].i = log[r].i) => g < r

\* the download of the second file failed twice and succeeded on the third
\* attempt, after waits of 2 and 4 seconds
C16_Witness ==
    /\ pc = "process"
    /\ i = 2
    /\ content_resp.status = "success"
    /\ AttemptsOf(2) = <<0, 1, 2>>
    /\ AttemptsOf(1) = <<0>>
    /\ Cardinality(Events("sleep")) = 2
    /\ \E w \in Events("sleep") : log[w].seconds = 4

(***************************************************************************)
(* C17: the files are gone through one at a time in the order of           *)
(* discovery: when the download of a file starts, every file before it has *)
(* been downloaded and, if its download succeeded, decoded; and            *)
(* parsed_files and failed_files hold their entries in the order of        *)
(* discovery.                                                              *)
(***************************************************************************)
\* the place of a file in all_files, by one of its fields
PlaceOf(field, value) == SetMin({k \in 1..Len(all_files) : all_files[k][field] = value})

InDiscoveryOrder(q, qfield, field) ==
    /\ \A k \in 1..Len(q) : \E n \in 1..Len(all_files) : all_files[n][field] = q[k][qfield]
    /\ \A k, m \in 1..Len(q) :
           k < m => PlaceOf(field, q[k][qfield]) < PlaceOf(field, q[m][qfield])

C17_OneFileAtATimeInDiscoveryOrder ==
    /\ \A g \in Events("get_media") : \A n \in 1..(log[g].i - 1) :
           /\ \E r \in Events("read") : r < g /\ log[r].i = n
           /\ \A r \in Events("read") :
                  (log[r].i = n /\ log[r].status = "success") =>
                      \E d \in Events("decode") : r < d /\ d < g /\ log[d].i = n
    /\ \A e \in Events("read") \cup Events("decode") : \A g \in Events("get_media") :
           log[e].i < log[g].i => e < g
    /\ pc \in {"attempt", "chunk", "process", "store", "done"} =>
           /\ InDiscoveryOrder(parsed_files, "file_id", "id")
           /\ InDiscoveryOrder(failed_files, "filename", "name")

\* a call over five files ended with three parsed and two failed files
C17_Witness ==
    /\ pc = "done"
    /\ Len(all_files) = 5
    /\ Len(parsed_files) = 3
    /\ Len(failed_files) = 2
    /\ Cardinality(Events("decode")) = 4

(***************************************************************************)
(* C18 as claimed: no file is decoded before the downloads of all          *)
(* discovered files have returned.                                         *)
(***************************************************************************)
C18_DecodeAfterAllFetches ==
    \A d \in Events("decode") : \A n \in 1..Len(all_files) :
        \E r \in Events("read") : r < d /\ log[r].i = n

(***************************************************************************)
(* C18 as amended: a file is decoded only after its own download has       *)
(* returned with success, and after the downloads of all files discovered  *)
(* before it have returned; the download of no later file has started by   *)
(* then.                                                                   *)
(***************************************************************************)
C18_DecodeAfterOwnFetch ==
    \A d \in Events("decode") :
        /\ \E r \in Events("read") :
               r < d /\ log[r].i = log[d].i /\ log[r].status = "success"
        /\ \A n \in 1..log[d].i : \E r \in Events("read") : r < d /\ log[r].i = n
        /\ \A g \in Events("get_media") : g < d => log[g].i <= log[d].i

\* the first of five files has been decoded and the download of the second
\* has started
C18_Witness ==
    /\ pc = "chunk"
    /\ i = 2
    /\ Len(all_files) = 5
    /\ \E d \in Events("decode") : log[d].i = 1

====
